---- MODULE Spec2Model ----
(***************************************************************************)
(* Model of volttron/client/commands/install_parser.py: the `vctl install` *)
(* and `vctl install-lib` commands.  One run of one command is modelled    *)
(* from its entry to its end (result reported, or an exception leaving     *)
(* the command).  Strings that the code inspects character by character    *)
(* (the install source) are sequences of one-character strings; Python     *)
(* values whose type matters are tagged records.                           *)
(***************************************************************************)
EXTENDS Integers, Sequences, FiniteSets, TLC

(***************************************************************************)
(* Bounds                                                                  *)
(***************************************************************************)
\* explicit --priority values tried are 1..MaxPriority (besides the default)
MaxPriority == 1

(***************************************************************************)
(* Python values                                                           *)
(***************************************************************************)
None == [t |-> "none"]
PyString(s) == [t |-> "str", s |-> s]
PyInt(n) == [t |-> "int", n |-> n]
PyBool(b) == [t |-> "bool", b |-> b]
PyTuple(items) == [t |-> "tuple", items |-> items]
\* an AsyncResult: get() returns v, or raises when exc
AsyncResult(v, exc) == [t |-> "future", v |-> v, exc |-> exc]

\* bool(v): None, "", 0, False and empty sequences are falsy; an AsyncResult
\* defines neither __bool__ nor __len__, so the object itself is truthy
Truthy(v) ==
    CASE v.t = "none" -> FALSE
      [] v.t = "str" -> v.s # ""
      [] v.t = "int" -> v.n # 0
      [] v.t = "bool" -> v.b
      [] v.t = "tuple" -> Len(v.items) > 0
      [] OTHER -> TRUE

RECURSIVE NatToStr(_)
NatToStr(n) ==
    LET d == <<"0", "1", "2", "3", "4", "5", "6", "7", "8", "9">>
    IN IF n < 10 THEN d[n + 1] ELSE NatToStr(n \div 10) \o d[(n % 10) + 1]

\* str(n) for an int
IntToStr(n) == IF n < 0 THEN "-" \o NatToStr(0 - n) ELSE NatToStr(n)

\* str(v), as "%s" % v and f"{v}" render a value
ToStr(v) ==
    CASE v.t = "none" -> "None"
      [] v.t = "str" -> v.s
      [] v.t = "int" -> IntToStr(v.n)
      [] v.t = "bool" -> IF v.b THEN "True" ELSE "False"
      [] OTHER -> "<object>"

(***************************************************************************)
(* Character strings                                                       *)
(***************************************************************************)
RECURSIVE Join(_)
\* the text of a character sequence
Join(cs) == IF cs = <<>> THEN "" ELSE Head(cs) \o Join(Tail(cs))

\* str.find(c): first index of c (1-based), 0 when absent
Find(cs, c) ==
    IF \E i \in 1..Len(cs) : cs[i] = c
    THEN CHOOSE i \in 1..Len(cs) : cs[i] = c /\ \A j \in 1..(i - 1) : cs[j] # c
    ELSE 0

UpperLetters == {"H", "T", "P"}
LowerLetters == {"a", "d", "e", "f", "g", "h", "i", "l", "p", "s", "t", "w"}
Letters == UpperLetters \cup LowerLetters
\* urllib.parse.scheme_chars, restricted to the characters in use
SchemeChars == Letters \cup {"0", "1", "+", "-", "."}

Lower(c) == CASE c = "H" -> "h" [] c = "T" -> "t" [] c = "P" -> "p" [] OTHER -> c

StartsWith(cs, prefix) ==
    /\ Len(cs) >= Len(prefix)
    /\ SubSeq(cs, 1, Len(prefix)) = prefix

\* the final component of a path
Basename(cs) ==
    LET seps == {k \in 1..Len(cs) : cs[k] = "/"}
        last == IF seps = {} THEN 0 ELSE CHOOSE k \in seps : \A m \in seps : m <= k
    IN SubSeq(cs, last + 1, Len(cs))

EndsWith(cs, suffix) ==
    /\ Len(cs) >= Len(suffix)
    /\ SubSeq(cs, Len(cs) - Len(suffix) + 1, Len(cs)) = suffix

WhlSuffix == <<".", "w", "h", "l">>

(***************************************************************************)
(* urllib.parse.urlparse, as far as the classifier uses it                 *)
(***************************************************************************)
\* position of the ':' that ends a scheme, 0 when the string has no scheme
SchemeEnd(cs) ==
    LET i == Find(cs, ":")
    IN IF /\ i > 1
          /\ cs[1] \in Letters
          /\ \A k \in 1..(i - 1) : cs[k] \in SchemeChars
       THEN i ELSE 0

\* parsed.scheme: the lower-cased prefix before the first ':'
UrlScheme(cs) ==
    LET i == SchemeEnd(cs)
    IN Join([k \in 1..(IF i = 0 THEN 0 ELSE i - 1) |-> Lower(cs[k])])

\* the network location: what follows "//" up to the first '/', '?' or '#'
UrlNetloc(cs) ==
    LET i == SchemeEnd(cs)
        rest == SubSeq(cs, i + 1, Len(cs))
    IN IF Len(rest) >= 2 /\ rest[1] = "/" /\ rest[2] = "/"
       THEN LET body == SubSeq(rest, 3, Len(rest))
                stops == {k \in 1..Len(body) : body[k] \in {"/", "?", "#"}}
                end == IF stops = {} THEN Len(body)
                       ELSE (CHOOSE k \in stops : \A m \in stops : k <= m) - 1
            IN SubSeq(body, 1, end)
       ELSE <<>>

\* urlsplit raises ValueError("Invalid IPv6 URL") on an unbalanced bracket
UrlparseRaises(cs) ==
    LET netloc == UrlNetloc(cs)
        open == \E k \in 1..Len(netloc) : netloc[k] = "["
        close == \E k \in 1..Len(netloc) : netloc[k] = "]"
    IN (open /\ ~close) \/ (close /\ ~open)

(***************************************************************************)
(* Filesystem paths                                                        *)
(***************************************************************************)
RECURSIVE Collapse(_)
\* repeated separators count as one
Collapse(cs) ==
    IF Len(cs) < 2 THEN cs
    ELSE IF cs[1] = "/" /\ cs[2] = "/" THEN Collapse(Tail(cs))
    ELSE <<cs[1]>> \o Collapse(Tail(cs))

\* Path(p).resolve().as_posix() and os.path.abspath(p): a relative path is
\* joined to the working directory, repeated and trailing separators are
\* dropped
Resolve(cs, cwd) ==
    LET abs == Collapse(IF cs # <<>> /\ cs[1] = "/" THEN cs
                        ELSE cwd \o <<"/">> \o cs)
    IN IF Len(abs) > 1 /\ abs[Len(abs)] = "/" THEN SubSeq(abs, 1, Len(abs) - 1)
       ELSE abs

(***************************************************************************)
(* _classify_install_source                                                *)
(***************************************************************************)
RecognizedSchemes == {"http", "https", "git", "git+https", "git+ssh", "file"}

Classified(type, value) == [raised |-> "None", type |-> type, value |-> value]

\* kind is what the filesystem holds at Path(source): "none", "dir" or "file"
_classify_install_source(source, kind, cwd) ==
    IF UrlparseRaises(source)
    THEN [raised |-> "ValueError", type |-> "", value |-> <<>>]
    ELSE IF UrlScheme(source) \in RecognizedSchemes
    THEN Classified("url", source)
    ELSE IF kind = "dir"
    THEN Classified("directory", Resolve(source, cwd))
    ELSE IF kind = "file" /\ EndsWith(source, WhlSuffix)
    THEN Classified("wheel", Resolve(source, cwd))
    ELSE Classified("pypi", source)

(***************************************************************************)
(* State                                                                   *)
(***************************************************************************)
VARIABLES
    entry,            \* the function this run entered
    opts,             \* the argparse namespace (opts.priority is assigned to)
    callback,         \* whether a completion callback was passed
    fsKind,           \* what the filesystem holds at Path(opts.install_path)
    cwd,              \* the working directory
    facts,            \* what the run has found out about the filesystem
    pc,               \* position in the command
    inner,            \* the inner install function entered, "none" before
    classified,       \* (source_type, processed_source)
    wheel_file,       \* argument wheel_file
    pypi_string,      \* argument pypi_string
    editable,         \* local editable
    cfg,              \* the NamedTemporaryFile: "none", "open" or "closed"
    config_dict,      \* parsed agent configuration
    primary_ret,      \* what connection.call returned for the primary call
    agent_uuid,       \* local agent_uuid / lib_name
    calls,            \* RPC calls issued on the connection, in order
    output_dict,      \* the result fields, in insertion order
    stdout,           \* what was written to sys.stdout, in order
    logged,           \* exceptions passed to _log.error
    error,            \* the exception that left the command, "None" if none
    callback_called   \* the completion callback ran

vars == <<entry, opts, callback, fsKind, cwd, facts, pc, inner, classified,
          wheel_file, pypi_string, editable, cfg, config_dict, primary_ret,
          agent_uuid, calls, output_dict, stdout, logged, error,
          callback_called>>

(***************************************************************************)
(* Inputs                                                                  *)
(***************************************************************************)
\* --priority default, add_install_agent_parser
DefaultPriority == -1
Priorities == {DefaultPriority} \cup (1..MaxPriority)

SrcHttp == <<"h", "t", "t", "p", ":", "/", "/", "h">>
SrcHttpsWhl == <<"h", "t", "t", "p", "s", ":", "/", "/", "h", "/", "a", ".", "w", "h", "l">>
SrcGit == <<"g", "i", "t", ":", "/", "/", "h">>
SrcGitHttps == <<"g", "i", "t", "+", "h", "t", "t", "p", "s", ":", "/", "/", "h">>
SrcGitSsh == <<"g", "i", "t", "+", "s", "s", "h", ":", "/", "/", "h">>
SrcFileWhl == <<"f", "i", "l", "e", ":", "a", ".", "w", "h", "l">>
SrcUpperHttp == <<"H", "T", "T", "P", ":", "/", "/", "h">>
SrcFtp == <<"f", "t", "p", ":", "/", "/", "h">>
SrcWhl == <<"a", ".", "w", "h", "l">>
SrcAbsWhl == <<"/", "d", "/", "a", ".", "w", "h", "l">>
SrcName == <<"a", "g">>
SrcAbsDir == <<"/", "d", "/">>
SrcVersioned == <<"p", ">", "=", "1">>
SrcBadBracket == <<"h", "t", "t", "p", ":", "/", "/", "[", "h">>

\* sources given to the classifier
AllSources ==
    {SrcHttp, SrcHttpsWhl, SrcGit, SrcGitHttps, SrcGitSsh, SrcFileWhl,
     SrcUpperHttp, SrcFtp, SrcWhl, SrcAbsWhl, SrcName, SrcAbsDir,
     SrcVersioned, SrcBadBracket}

\* sources given to the commands
InstallSources == {SrcHttp, SrcName, SrcWhl, SrcBadBracket}

FsKinds == {"none", "dir", "file"}
Cwds == {<<"/">>, <<"/", "w">>}

PyDict(items) == [t |-> "dict", items |-> items]
\* an inline configuration, one with a value yaml.safe_dump cannot represent
CfgPlain == PyDict(<<<<"k", PyTuple(<<PyString("a")>>)>>>>)
CfgUnsafe == PyDict(<<<<"k", [t |-> "object"]>>>>)
CfgPath == PyString("c.yml")
AgentConfigs == {None, CfgPlain, CfgUnsafe, CfgPath}

AddrIpc == <<"i", "p", "c", ":", "/", "/", "s">>
AddrTcp == <<"t", "c", "p", ":", "/", "/", "h">>
Addresses == {AddrIpc, AddrTcp}

\* the options both parsers set; the agent-only ones at their defaults
DefaultOpts(src, addr) ==
    [install_path |-> src, address |-> addr, tag |-> None,
     priority |-> PyInt(DefaultPriority), enable |-> FALSE, start |-> FALSE,
     json |-> FALSE, csv |-> FALSE, agent_config |-> None,
     vip_identity |-> None, force |-> FALSE, pre_release |-> FALSE]

AgentOpts ==
    [install_path : InstallSources, address : Addresses,
     tag : {None, PyString("t")}, priority : {PyInt(p) : p \in Priorities},
     enable : BOOLEAN, start : BOOLEAN, json : BOOLEAN, csv : BOOLEAN,
     agent_config : AgentConfigs,
     vip_identity : {None}, force : {FALSE}, pre_release : {FALSE}]

LibOpts == {DefaultOpts(src, addr) : src \in InstallSources, addr \in Addresses}

\* a pathlib.Path argument
PathArg(cs, exists) == [t |-> "path", path |-> cs, exists |-> exists]
WheelArgs == {None, PathArg(SrcAbsWhl, TRUE), PathArg(SrcAbsWhl, FALSE)}
PypiArgs == {None, PyString("p")}

\* primary_ret before the primary call has returned
NotReturned == [t |-> "pending"]

NoFacts == [pyproject |-> "unknown", built |-> "unknown", config |-> "unknown"]

\* fields common to every initial state
InitRun ==
    /\ facts = NoFacts
    /\ classified = Classified("", <<>>)
    /\ editable = FALSE
    /\ cfg = "none"
    /\ config_dict = None
    /\ primary_ret = NotReturned
    /\ agent_uuid = None
    /\ calls = <<>>
    /\ output_dict = <<>>
    /\ stdout = <<>>
    /\ logged = <<>>
    /\ error = "None"
    /\ callback_called = FALSE

(***************************************************************************)
(* _build_from_pyproject                                                   *)
(***************************************************************************)
DistWheel == <<"/", "d", "i", "s", "t", "/", "a", "-", "1", ".", "w", "h", "l">>

\* pyproject: install_path/pyproject.toml exists; built: dist/ holds a wheel
\* once the build command has run
_build_from_pyproject(install_path, pyproject, built) ==
    IF ~pyproject THEN [raised |-> "AssertionError", wheel |-> None]
    ELSE IF built
    THEN [raised |-> "None", wheel |-> PathArg(install_path \o DistWheel, TRUE)]
    ELSE [raised |-> "InstallRuntimeError", wheel |-> None]

\* what a run of the builder tells about the directory
BuildFacts(f, pyproject, built) ==
    [f EXCEPT !.pyproject = IF pyproject THEN "yes" ELSE "no",
              !.built = IF ~pyproject THEN "unknown"
                        ELSE IF built THEN "yes" ELSE "no"]

(***************************************************************************)
(* install_agent_vctl and install_lib_vctl, up to the inner call           *)
(***************************************************************************)
Dispatched(raised, wheel, pypi, f) ==
    [raised |-> raised, wheel_file |-> wheel, pypi_string |-> pypi, facts |-> f]

\* connection.address.startswith("ipc:")
IsLocalAddress(address) == StartsWith(address, <<"i", "p", "c", ":">>)

\* the arguments install_agent_vctl passes to _install_and_initialize_agent
AgentDispatch(c, address, pyproject, built) ==
    IF c.type = "directory"
    THEN IF IsLocalAddress(address)
         THEN Dispatched("None", None, None, facts)
         ELSE LET b == _build_from_pyproject(c.value, pyproject, built)
              IN Dispatched(b.raised, b.wheel, None,
                            BuildFacts(facts, pyproject, built))
    ELSE IF c.type = "wheel"
    THEN Dispatched("None", PathArg(c.value, TRUE), None, facts)
    ELSE Dispatched("None", None, PyString(Join(c.value)), facts)

\* the arguments install_lib_vctl passes to _install_lib
LibDispatch(c, pyproject, built) ==
    IF c.type = "directory"
    THEN LET b == _build_from_pyproject(c.value, pyproject, built)
         IN Dispatched(b.raised, b.wheel, None,
                       BuildFacts(facts, pyproject, built))
    ELSE IF c.type = "wheel"
    THEN Dispatched("None", PathArg(c.value, TRUE), None, facts)
    ELSE Dispatched("None", None, PyString(Join(c.value)), facts)

\* both commands: classify the source, build it if needed, and enter the
\* inner function with the arguments d, or leave with the exception raised
Enter(c, d, next, nextpc) ==
    /\ classified' = c
    /\ IF c.raised # "None"
       THEN /\ pc' = "done"
            /\ error' = c.raised
            /\ UNCHANGED <<facts, wheel_file, pypi_string, inner>>
       ELSE /\ facts' = d.facts
            /\ IF d.raised # "None"
               THEN /\ pc' = "done"
                    /\ error' = d.raised
                    /\ UNCHANGED <<wheel_file, pypi_string, inner>>
               ELSE /\ pc' = nextpc
                    /\ inner' = next
                    /\ wheel_file' = d.wheel_file
                    /\ pypi_string' = d.pypi_string
                    /\ UNCHANGED error
    /\ UNCHANGED <<entry, opts, callback, fsKind, cwd, editable, cfg,
                   config_dict, primary_ret, agent_uuid, calls, output_dict,
                   stdout, logged, callback_called>>

install_agent_vctl ==
    /\ pc = "install_agent_vctl"
    /\ \E pyproject \in BOOLEAN, built \in BOOLEAN :
         LET c == _classify_install_source(opts.install_path, fsKind, cwd)
         IN Enter(c, AgentDispatch(c, opts.address, pyproject, built),
                  "_install_and_initialize_agent", "check_args")

install_lib_vctl ==
    /\ pc = "install_lib_vctl"
    /\ \E pyproject \in BOOLEAN, built \in BOOLEAN :
         LET c == _classify_install_source(opts.install_path, fsKind, cwd)
         IN Enter(c, LibDispatch(c, pyproject, built), "_install_lib",
                  "lib_check_args")

(***************************************************************************)
(* yaml and base64                                                         *)
(***************************************************************************)
PyList(items) == [t |-> "list", items |-> items]

\* SafeRepresenter knows the scalar types, lists and tuples; any other object
\* makes safe_dump raise RepresenterError
YamlRepresentable(v) ==
    IF v.t \in {"tuple", "list"}
    THEN \A i \in 1..Len(v.items) : v.items[i].t \in {"none", "str", "int", "bool"}
    ELSE v.t \in {"none", "str", "int", "bool"}

\* a tuple and a list are both written as a YAML sequence
YamlNode(v) ==
    IF v.t \in {"tuple", "list"} THEN [tag |-> "seq", items |-> v.items]
    ELSE [tag |-> "scalar", v |-> v]

\* yaml.safe_dump of a mapping
YamlSafeDump(d) ==
    IF \E i \in 1..Len(d.items) : ~YamlRepresentable(d.items[i][2])
    THEN [raised |-> TRUE, doc |-> <<>>]
    ELSE [raised |-> FALSE,
          doc |-> [i \in 1..Len(d.items) |-> <<d.items[i][1], YamlNode(d.items[i][2])>>]]

\* yaml.safe_load of a document: a sequence comes back as a list
YamlSafeLoad(doc) ==
    PyDict([i \in 1..Len(doc) |->
              <<doc[i][1], IF doc[i][2].tag = "seq" THEN PyList(doc[i][2].items)
                           ELSE doc[i][2].v>>])

B64Alphabet ==
    <<"A", "B", "C", "D", "E", "F", "G", "H", "I", "J", "K", "L", "M", "N", "O", "P",
      "Q", "R", "S", "T", "U", "V", "W", "X", "Y", "Z", "a", "b", "c", "d", "e", "f",
      "g", "h", "i", "j", "k", "l", "m", "n", "o", "p", "q", "r", "s", "t", "u", "v",
      "w", "x", "y", "z", "0", "1", "2", "3", "4", "5", "6", "7", "8", "9", "+", "/">>

RECURSIVE b64encode(_)
\* base64.b64encode(bytes).decode("utf-8")
b64encode(bs) ==
    IF bs = <<>> THEN ""
    ELSE LET n == Len(bs)
             b1 == bs[1]
             b2 == IF n >= 2 THEN bs[2] ELSE 0
             b3 == IF n >= 3 THEN bs[3] ELSE 0
         IN B64Alphabet[(b1 \div 4) + 1]
            \o B64Alphabet[((b1 % 4) * 16 + (b2 \div 16)) + 1]
            \o (IF n >= 2 THEN B64Alphabet[((b2 % 16) * 4 + (b3 \div 64)) + 1] ELSE "=")
            \o (IF n >= 3 THEN B64Alphabet[(b3 % 64) + 1] ELSE "=")
            \o b64encode(IF n > 3 THEN SubSeq(bs, 4, n) ELSE <<>>)

\* what the wheel file holds: the two bytes "PK"
WheelContents == {<<80, 75>>}

(***************************************************************************)
(* _install_and_initialize_agent: arguments and configuration              *)
(***************************************************************************)
Leave(exc) == pc' = "done" /\ error' = exc

\* editable is set when opts.install_path names a directory
EditableOf(install_path, kind) == install_path # <<>> /\ kind = "dir"

\* the two assertions on the install target
ArgumentsError(ed, wf, ps) ==
    IF ~(ed \/ Truthy(wf) \/ Truthy(ps)) THEN "AssertionError"
    ELSE IF ed /\ Truthy(wf) /\ Truthy(ps) THEN "AssertionError"
    ELSE "None"

WheelFileError(wf) ==
    IF Truthy(wf) /\ ~wf.exists THEN "InstallRuntimeError" ELSE "None"

CheckArguments ==
    /\ pc = "check_args"
    /\ LET ed == EditableOf(opts.install_path, fsKind)
           a == ArgumentsError(ed, wheel_file, pypi_string)
       IN /\ editable' = ed
          /\ IF a # "None" THEN Leave(a)
             ELSE IF WheelFileError(wheel_file) # "None"
             THEN Leave(WheelFileError(wheel_file))
             ELSE pc' = "load_config" /\ UNCHANGED error
    /\ UNCHANGED <<entry, opts, callback, fsKind, cwd, facts, inner, classified,
                   wheel_file, pypi_string, cfg, config_dict, primary_ret,
                   agent_uuid, calls, output_dict, stdout, logged,
                   callback_called>>

\* the mapping a config file on disk parses to
FileConfig == PyDict(<<<<"f", PyString("v")>>>>)

\* the existence check left out
ConfigFileError_NoCheck(exists) == "None"

\* `if not Path(config_file).exists()`
ConfigFileError(exists) == IF exists THEN "None" ELSE "InstallRuntimeError"

\* agent_config is a path: exists, and whether its content parses
LoadConfigFile(exists, parses) ==
    /\ facts' = [facts EXCEPT !.config = IF exists THEN "yes" ELSE "no"]
    /\ cfg' = cfg
    /\ IF ConfigFileError(exists) # "None"
       THEN Leave(ConfigFileError(exists)) /\ UNCHANGED config_dict
       ELSE IF ~parses
       THEN Leave("InstallRuntimeError") /\ UNCHANGED config_dict
       ELSE /\ config_dict' = FileConfig
            /\ pc' = "call_install"
            /\ UNCHANGED error

\* agent_config is a mapping: written: the temporary file took the dump;
\* readable: it could be opened again.  cfg.close() is in the finally of the
\* read only, so a failed dump or write leaves the file open
LoadConfigDict(agent_config, written, readable) ==
    LET dump == YamlSafeDump(agent_config)
    IN /\ facts' = facts
       /\ IF dump.raised \/ ~written
          THEN /\ cfg' = "open"
               /\ Leave(IF dump.raised THEN "RepresenterError" ELSE "OSError")
               /\ UNCHANGED config_dict
          ELSE /\ cfg' = "closed"
               /\ IF ~readable
                  THEN Leave("InstallRuntimeError") /\ UNCHANGED config_dict
                  ELSE /\ config_dict' = YamlSafeLoad(dump.doc)
                       /\ pc' = "call_install"
                       /\ UNCHANGED error

LoadConfig ==
    /\ pc = "load_config"
    /\ LET agent_config == IF opts.agent_config = None THEN PyDict(<<>>)
                           ELSE opts.agent_config
       IN IF agent_config.t # "dict"
          THEN \E exists \in BOOLEAN, parses \in BOOLEAN :
                  LoadConfigFile(exists, parses)
          ELSE \E written \in BOOLEAN, readable \in BOOLEAN :
                  LoadConfigDict(agent_config, written, readable)
    /\ UNCHANGED <<entry, opts, callback, fsKind, cwd, inner, classified,
                   wheel_file, pypi_string, editable, primary_ret, agent_uuid,
                   calls, output_dict, stdout, logged, callback_called>>

\* the temporary file is removed when the NamedTemporaryFile object, never
\* closed, is finalized after the command has ended
FinalizeTempFile ==
    /\ pc = "done"
    /\ cfg = "open"
    /\ cfg' = "closed"
    /\ UNCHANGED <<entry, opts, callback, fsKind, cwd, facts, pc, inner,
                   classified, wheel_file, pypi_string, editable, config_dict,
                   primary_ret, agent_uuid, calls, output_dict, stdout, logged,
                   error, callback_called>>

(***************************************************************************)
(* The connection                                                          *)
(***************************************************************************)
Call(method, args) == [method |-> method, args |-> args]

\* what a call may raise: an exception of the Exception hierarchy (a remote
\* error), or one outside it (an interrupt, a gevent timeout)
RpcExceptions == {"Exception", "BaseException"}
RpcRaises == {"None"} \cup RpcExceptions

\* what the primary call may return: an identifier, nothing, or an
\* AsyncResult that resolves to either or raises
PrimaryReturns ==
    {PyString("42"), PyString(""), None,
     AsyncResult(PyString("42"), FALSE), AsyncResult(PyString(""), FALSE),
     AsyncResult(None, FALSE), AsyncResult(None, TRUE)}

\* what agent_status may return: (pid, returncode) or something else
StatusReturns ==
    {PyTuple(<<PyInt(1234), None>>), PyTuple(<<None, None>>),
     PyTuple(<<PyInt(1234), PyInt(0)>>), PyTuple(<<PyInt(1234)>>),
     PyTuple(<<>>), None}

(***************************************************************************)
(* _install_and_initialize_agent: the install request and the primary call *)
(***************************************************************************)
\* AgentInstallOptions(...).to_dict(); content is what the wheel file holds
AgentInstallOptions(o, ed, wf, ps, cd, content) ==
    [source |-> IF Truthy(wf) THEN PyString(Join(Basename(wf.path)))
                ELSE IF Truthy(ps) THEN ps
                ELSE IF ed THEN PyString(Join(Resolve(o.install_path, cwd)))
                ELSE None,
     identity |-> o.vip_identity,
     data |-> IF Truthy(wf) THEN PyString(b64encode(content)) ELSE None,
     agent_config |-> cd,
     force |-> o.force,
     allow_prerelease |-> o.pre_release,
     editable |-> ed]

\* the check left out
InstallFailed_NoCheck(ret) == FALSE

\* `if not agent_uuid`, applied to what the call returned
InstallFailed(ret) == ~Truthy(ret)

CallInstallAgent ==
    /\ pc = "call_install"
    /\ \E content \in WheelContents, raised \in RpcRaises, ret \in PrimaryReturns :
         /\ calls' = Append(calls,
                Call("install_agent",
                     <<AgentInstallOptions(opts, editable, wheel_file,
                                           pypi_string, config_dict, content)>>))
         /\ IF raised # "None"
            THEN Leave(raised) /\ UNCHANGED <<primary_ret, agent_uuid>>
            ELSE /\ primary_ret' = ret
                 /\ IF InstallFailed(ret)
                    THEN Leave("ValueError") /\ UNCHANGED agent_uuid
                    ELSE /\ agent_uuid' = ret
                         /\ pc' = "resolve"
                         /\ UNCHANGED error
    /\ UNCHANGED <<entry, opts, callback, fsKind, cwd, facts, inner, classified,
                   wheel_file, pypi_string, editable, cfg, config_dict,
                   output_dict, stdout, logged, callback_called>>

\* isinstance(agent_uuid, AsyncResult): agent_uuid.get(); then the result
\* mapping is started
ResolveUuid ==
    /\ pc = "resolve"
    /\ IF agent_uuid.t = "future" /\ agent_uuid.exc
       THEN Leave("Exception") /\ UNCHANGED <<agent_uuid, output_dict>>
       ELSE LET id == IF agent_uuid.t = "future" THEN agent_uuid.v ELSE agent_uuid
            IN /\ agent_uuid' = id
               /\ output_dict' = <<<<"agent_uuid", id>>>>
               /\ pc' = "tag"
               /\ UNCHANGED error
    /\ UNCHANGED <<entry, opts, callback, fsKind, cwd, facts, inner, classified,
                   wheel_file, pypi_string, editable, cfg, config_dict,
                   primary_ret, calls, stdout, logged, callback_called>>

(***************************************************************************)
(* _install_and_initialize_agent: tag, prioritize, start, status           *)
(***************************************************************************)
TagAgent ==
    /\ pc = "tag"
    /\ IF Truthy(opts.tag)
       THEN \E raised \in RpcRaises :
              /\ calls' = Append(calls, Call("tag_agent", <<agent_uuid, opts.tag>>))
              /\ IF raised # "None"
                 THEN Leave(raised) /\ UNCHANGED output_dict
                 ELSE /\ output_dict' = Append(output_dict, <<"tag", opts.tag>>)
                      /\ pc' = "prioritize"
                      /\ UNCHANGED error
       ELSE pc' = "prioritize" /\ UNCHANGED <<calls, output_dict, error>>
    /\ UNCHANGED <<entry, opts, callback, fsKind, cwd, facts, inner, classified,
                   wheel_file, pypi_string, editable, cfg, config_dict,
                   primary_ret, agent_uuid, stdout, logged, callback_called>>

\* the priority test left out of the condition
ShouldPrioritize_EnableOnly(o) == o.enable

\* `if opts.enable or opts.priority != -1`
ShouldPrioritize(o) == o.enable \/ o.priority # PyInt(DefaultPriority)

\* `if opts.priority == -1: opts.priority = "50"`
PriorityToSend(o) ==
    IF o.priority = PyInt(DefaultPriority) THEN PyString("50") ELSE o.priority

PrioritizeAgent ==
    /\ pc = "prioritize"
    /\ IF ShouldPrioritize(opts)
       THEN \E raised \in RpcRaises :
              LET p == PriorityToSend(opts)
              IN /\ opts' = [opts EXCEPT !.priority = p]
                 /\ output_dict' = output_dict \o
                        <<<<"enabling", PyBool(TRUE)>>, <<"priority", p>>>>
                 /\ calls' = Append(calls,
                        Call("prioritize_agent", <<agent_uuid, PyString(ToStr(p))>>))
                 /\ IF raised # "None" THEN Leave(raised)
                    ELSE pc' = "start" /\ UNCHANGED error
       ELSE pc' = "start" /\ UNCHANGED <<opts, calls, output_dict, error>>
    /\ UNCHANGED <<entry, callback, fsKind, cwd, facts, inner, classified,
                   wheel_file, pypi_string, editable, cfg, config_dict,
                   primary_ret, agent_uuid, stdout, logged, callback_called>>

\* no handler around the start and status calls
CaughtByExcept_Nothing(exc) == FALSE

\* `except Exception as e` around the start and status calls
CaughtByExcept(exc) == exc = "Exception"

\* a handler around each call of its own: after a caught failure of
\* start_agent the status is still asked for
RaisedInTry_PerCall(exc) ==
    IF CaughtByExcept(exc)
    THEN /\ logged' = Append(logged, exc)
         /\ pc' = IF pc = "start" THEN "status" ELSE "report"
         /\ UNCHANGED error
    ELSE Leave(exc) /\ UNCHANGED logged

\* an exception raised inside the try block: logged and passed over, or
\* leaving the command
RaisedInTry(exc) ==
    IF CaughtByExcept(exc)
    THEN /\ logged' = Append(logged, exc)
         /\ pc' = "report"
         /\ UNCHANGED error
    ELSE Leave(exc) /\ UNCHANGED logged

StartAgent ==
    /\ pc = "start"
    /\ IF opts.start
       THEN \E raised \in RpcRaises :
              /\ calls' = Append(calls, Call("start_agent", <<agent_uuid>>))
              /\ IF raised # "None"
                 THEN RaisedInTry(raised) /\ UNCHANGED output_dict
                 ELSE /\ output_dict' = Append(output_dict, <<"starting", PyBool(TRUE)>>)
                      /\ pc' = "status"
                      /\ UNCHANGED <<error, logged>>
       ELSE pc' = "report" /\ UNCHANGED <<calls, output_dict, error, logged>>
    /\ UNCHANGED <<entry, opts, callback, fsKind, cwd, facts, inner, classified,
                   wheel_file, pypi_string, editable, cfg, config_dict,
                   primary_ret, agent_uuid, stdout, callback_called>>

\* what evaluating `status[0] is not None and status[1] is None` raises
StatusError(status) ==
    IF status.t # "tuple" THEN "Exception"
    ELSE IF Len(status.items) = 0 THEN "Exception"
    ELSE IF status.items[1] = None THEN "None"
    ELSE IF Len(status.items) < 2 THEN "Exception"
    ELSE "None"

\* the value of that condition where it raises nothing
StatusRunning(status) ==
    status.items[1] # None /\ status.items[2] = None

AgentStatus ==
    /\ pc = "status"
    /\ \E raised \in RpcRaises, status \in StatusReturns :
         /\ calls' = Append(calls, Call("agent_status", <<agent_uuid>>))
         /\ IF raised # "None"
            THEN RaisedInTry(raised) /\ UNCHANGED output_dict
            ELSE IF StatusError(status) # "None"
            THEN RaisedInTry(StatusError(status)) /\ UNCHANGED output_dict
            ELSE /\ output_dict' =
                      IF StatusRunning(status)
                      THEN output_dict \o <<<<"started", PyBool(TRUE)>>,
                                            <<"pid", status.items[1]>>>>
                      ELSE Append(output_dict, <<"started", PyBool(FALSE)>>)
                 /\ pc' = "report"
                 /\ UNCHANGED <<error, logged>>
    /\ UNCHANGED <<entry, opts, callback, fsKind, cwd, facts, inner, classified,
                   wheel_file, pypi_string, editable, cfg, config_dict,
                   primary_ret, agent_uuid, stdout, callback_called>>

(***************************************************************************)
(* _install_and_initialize_agent: the report                               *)
(***************************************************************************)
\* output_dict.get(k)
DictGet(d, k) ==
    IF \E i \in 1..Len(d) : d[i][1] = k
    THEN d[CHOOSE i \in 1..Len(d) : d[i][1] = k][2]
    ELSE None

PlainLine(d, uuid) ==
    IF Truthy(DictGet(d, "started"))
    THEN "Agent " \o ToStr(uuid) \o " installed and started ["
         \o ToStr(DictGet(d, "pid")) \o "]"
    ELSE "Agent " \o ToStr(uuid) \o " installed"

RECURSIVE CsvJoin(_, _)
\* the k-th components of the items, rendered and joined by commas
CsvJoin(d, k) ==
    IF d = <<>> THEN ""
    ELSE LET cell == IF k = 1 THEN Head(d)[1] ELSE ToStr(Head(d)[2])
         IN IF Len(d) = 1 THEN cell ELSE cell \o "," \o CsvJoin(Tail(d), k)

JsonWrite(d) == [fmt |-> "json", obj |-> d]
PlainWrite(text) == [fmt |-> "plain", text |-> text]
CsvWrite(d) == [fmt |-> "csv", header |-> CsvJoin(d, 1), values |-> CsvJoin(d, 2)]

\* the writes to sys.stdout at the end of _install_and_initialize_agent
ReportWrites(o, d, uuid) ==
    (IF o.json THEN <<JsonWrite(d)>> ELSE <<PlainWrite(PlainLine(d, uuid))>>)
    \o (IF o.csv THEN <<CsvWrite(d)>> ELSE <<>>)

Report ==
    /\ pc = "report"
    /\ stdout' = stdout \o ReportWrites(opts, output_dict, agent_uuid)
    /\ pc' = IF entry = "install_agent_vctl" THEN "callback" ELSE "done"
    /\ UNCHANGED <<entry, opts, callback, fsKind, cwd, facts, inner, classified,
                   wheel_file, pypi_string, editable, cfg, config_dict,
                   primary_ret, agent_uuid, calls, output_dict, logged, error,
                   callback_called>>

\* `if callback: callback()` at the end of install_agent_vctl
Callback ==
    /\ pc = "callback"
    /\ callback_called' = callback
    /\ pc' = "done"
    /\ UNCHANGED <<entry, opts, callback, fsKind, cwd, facts, inner, classified,
                   wheel_file, pypi_string, editable, cfg, config_dict,
                   primary_ret, agent_uuid, calls, output_dict, stdout, logged,
                   error>>

(***************************************************************************)
(* _install_lib                                                            *)
(***************************************************************************)
LibArgumentsError(wf, ps) ==
    IF ~(Truthy(wf) \/ Truthy(ps)) THEN "AssertionError"
    ELSE IF Truthy(wf) /\ Truthy(ps) THEN "AssertionError"
    ELSE "None"

LibCheckArguments ==
    /\ pc = "lib_check_args"
    /\ LET a == LibArgumentsError(wheel_file, pypi_string)
       IN IF a # "None" THEN Leave(a)
          ELSE IF WheelFileError(wheel_file) # "None"
          THEN Leave(WheelFileError(wheel_file))
          ELSE pc' = "lib_call_install" /\ UNCHANGED error
    /\ UNCHANGED <<entry, opts, callback, fsKind, cwd, facts, inner, classified,
                   wheel_file, pypi_string, editable, cfg, config_dict,
                   primary_ret, agent_uuid, calls, output_dict, stdout, logged,
                   callback_called>>

\* the keyword arguments of install_library
LibraryRequest(o, wf, ps, content) ==
    [source |-> IF Truthy(wf) THEN PyString(Join(Basename(wf.path))) ELSE ps,
     data |-> IF Truthy(wf) THEN PyString(b64encode(content)) ELSE None,
     force |-> o.force,
     allow_prerelease |-> o.pre_release]

CallInstallLibrary ==
    /\ pc = "lib_call_install"
    /\ \E content \in WheelContents, raised \in RpcRaises, ret \in PrimaryReturns :
         /\ calls' = Append(calls,
                Call("install_library",
                     <<LibraryRequest(opts, wheel_file, pypi_string, content)>>))
         /\ IF raised # "None"
            THEN Leave(raised) /\ UNCHANGED <<primary_ret, agent_uuid>>
            ELSE /\ primary_ret' = ret
                 /\ IF InstallFailed(ret)
                    THEN Leave("ValueError") /\ UNCHANGED agent_uuid
                    ELSE /\ agent_uuid' = ret
                         /\ pc' = "lib_report"
                         /\ UNCHANGED error
    /\ UNCHANGED <<entry, opts, callback, fsKind, cwd, facts, inner, classified,
                   wheel_file, pypi_string, editable, cfg, config_dict,
                   output_dict, stdout, logged, callback_called>>

\* isinstance(lib_name, AsyncResult): lib_name.get(); then the line written
LibReport ==
    /\ pc = "lib_report"
    /\ IF agent_uuid.t = "future" /\ agent_uuid.exc
       THEN Leave("Exception") /\ UNCHANGED <<agent_uuid, stdout>>
       ELSE LET name == IF agent_uuid.t = "future" THEN agent_uuid.v ELSE agent_uuid
            IN /\ agent_uuid' = name
               /\ stdout' = Append(stdout,
                      PlainWrite("Installed " \o ToStr(name) \o " "))
               /\ pc' = IF entry = "install_lib_vctl" THEN "lib_callback" ELSE "done"
               /\ UNCHANGED error
    /\ UNCHANGED <<entry, opts, callback, fsKind, cwd, facts, inner, classified,
                   wheel_file, pypi_string, editable, cfg, config_dict,
                   primary_ret, calls, output_dict, logged, callback_called>>

\* `if callback: callback()` at the end of install_lib_vctl
LibCallback ==
    /\ pc = "lib_callback"
    /\ callback_called' = callback
    /\ pc' = "done"
    /\ UNCHANGED <<entry, opts, callback, fsKind, cwd, facts, inner, classified,
                   wheel_file, pypi_string, editable, cfg, config_dict,
                   primary_ret, agent_uuid, calls, output_dict, stdout, logged,
                   error>>

(***************************************************************************)
(* The commands                                                            *)
(***************************************************************************)
\* a run of `vctl install`
InitAgentVctl ==
    /\ entry = "install_agent_vctl"
    /\ pc = "install_agent_vctl"
    /\ opts \in AgentOpts
    /\ wheel_file = None
    /\ pypi_string = None

\* a run of `vctl install-lib`
InitLibVctl ==
    /\ entry = "install_lib_vctl"
    /\ pc = "install_lib_vctl"
    /\ opts \in LibOpts
    /\ wheel_file = None
    /\ pypi_string = None

\* a call of _install_and_initialize_agent from other code
InitAgentDirect ==
    /\ entry = "_install_and_initialize_agent"
    /\ pc = "check_args"
    /\ opts \in {[DefaultOpts(src, AddrIpc) EXCEPT !.agent_config = c] :
                    src \in InstallSources, c \in {None, CfgPath}}
    /\ wheel_file \in WheelArgs
    /\ pypi_string \in PypiArgs

\* a call of _install_lib from other code
InitLibDirect ==
    /\ entry = "_install_lib"
    /\ pc = "lib_check_args"
    /\ opts \in LibOpts
    /\ wheel_file \in WheelArgs
    /\ pypi_string \in PypiArgs

\* what every run starts from, whoever started it
InitEnv ==
    /\ InitRun
    /\ cwd = <<"/", "w">>
    /\ fsKind \in FsKinds

\* the two commands, as the parsers' func defaults run them
Init ==
    /\ InitEnv
    /\ callback \in BOOLEAN
    /\ InitAgentVctl \/ InitLibVctl
    /\ inner = "none"

\* the commands, and the inner functions called by other code
InitCallers ==
    /\ InitEnv
    /\ \/ /\ callback \in BOOLEAN
          /\ InitAgentVctl \/ InitLibVctl
          /\ inner = "none"
       \/ /\ callback = FALSE
          /\ InitAgentDirect \/ InitLibDirect
          /\ inner = entry

Next ==
    \/ install_agent_vctl
    \/ install_lib_vctl
    \/ CheckArguments
    \/ LoadConfig
    \/ FinalizeTempFile
    \/ CallInstallAgent
    \/ ResolveUuid
    \/ TagAgent
    \/ PrioritizeAgent
    \/ StartAgent
    \/ AgentStatus
    \/ Report
    \/ Callback
    \/ LibCheckArguments
    \/ CallInstallLibrary
    \/ LibReport
    \/ LibCallback

Spec == Init /\ [][Next]_vars

SpecCallers == InitCallers /\ [][Next]_vars

(***************************************************************************)
(* The classifier on its own                                               *)
(***************************************************************************)
InitClassify ==
    /\ InitRun
    /\ entry = "_classify_install_source"
    /\ inner = "none"
    /\ pc = "classify"
    /\ opts \in {DefaultOpts(src, AddrIpc) : src \in AllSources}
    /\ fsKind \in FsKinds
    /\ cwd \in Cwds
    /\ callback = FALSE
    /\ wheel_file = None
    /\ pypi_string = None

Classify ==
    /\ pc = "classify"
    /\ classified' = _classify_install_source(opts.install_path, fsKind, cwd)
    /\ error' = classified'.raised
    /\ pc' = "done"
    /\ UNCHANGED <<entry, opts, callback, fsKind, cwd, facts, inner,
                   wheel_file, pypi_string, editable, cfg, config_dict,
                   primary_ret, agent_uuid, calls, output_dict, stdout, logged,
                   callback_called>>

NextClassify == Classify

SpecClassify == InitClassify /\ [][NextClassify]_vars

(***************************************************************************)
(* Properties                                                              *)
(***************************************************************************)
InAgentInstall == inner = "_install_and_initialize_agent"
InLibInstall == inner = "_install_lib"

Methods == {calls[i].method : i \in 1..Len(calls)}
FollowUpMethods == {"tag_agent", "prioritize_agent", "start_agent", "agent_status"}

\* the values the spec calls an empty identifier
EmptyIdentifiers == {None, PyString("")}

\* C1: when install_agent returns an empty identifier (None or ""), the
\* command ends with the install-failed error (ValueError), install_agent is
\* the only call issued and nothing is reported, whatever the options.
C1_EmptyIdentifierFails ==
    (InAgentInstall /\ primary_ret \in EmptyIdentifiers)
        => /\ pc = "done"
           /\ error = "ValueError"
           /\ Methods \cap FollowUpMethods = {}
           /\ Len(calls) = 1
           /\ stdout = <<>>

\* install_agent returned nothing although tag, enable and start were asked
C1_Witness ==
    /\ InAgentInstall
    /\ primary_ret = None
    /\ error = "ValueError"
    /\ Truthy(opts.tag) /\ opts.enable /\ opts.start

\* C2: when the primary call returns a future, the emptiness check and all
\* later steps use the resolved value: once a future has resolved to an
\* empty identifier the command has failed, with no follow-up call and no
\* success report.
C2_FutureResolvedBeforeCheck ==
    (/\ primary_ret.t = "future"
     /\ ~primary_ret.exc
     /\ primary_ret.v \in EmptyIdentifiers
     /\ pc \notin {"resolve", "lib_report"})
        => /\ error # "None"
           /\ Len(calls) = 1
           /\ stdout = <<>>

InstallRequests ==
    {calls[i].args[1] : i \in {k \in 1..Len(calls) : calls[k].method = "install_agent"}}

FromDirectory == entry = "install_agent_vctl" /\ classified.type = "directory"

\* C3: every install_agent request carries a payload exactly when its source
\* is the wheel file's name, never a payload together with editable; a
\* directory over a non-local connection is sent as the built wheel's payload
\* with editable false, a directory over a local connection as its absolute
\* path with no payload and editable true.
C3_RequestWellFormed ==
    \A r \in InstallRequests :
        /\ (r.data # None) <=>
              (/\ Truthy(wheel_file)
               /\ r.source = PyString(Join(Basename(wheel_file.path))))
        /\ ~(r.editable /\ r.data # None)
        /\ (FromDirectory /\ ~IsLocalAddress(opts.address))
              => (r.data # None /\ ~r.editable)
        /\ (FromDirectory /\ IsLocalAddress(opts.address))
              => /\ r.source = PyString(Join(Resolve(opts.install_path, cwd)))
                 /\ r.data = None
                 /\ r.editable

Count(b) == IF b THEN 1 ELSE 0
\* how many install targets the inner function was given
AgentTargets == Count(editable) + Count(Truthy(wheel_file)) + Count(Truthy(pypi_string))
LibTargets == Count(Truthy(wheel_file)) + Count(Truthy(pypi_string))

\* C4: once the arguments have been checked, a request with more than one
\* effective target (any two of wheel file, registry/URL string, editable
\* directory) or with none has ended in the invalid-arguments error
\* (AssertionError) and no call has been sent.
C4_ExactlyOneTarget ==
    /\ (InAgentInstall /\ pc # "check_args" /\ AgentTargets # 1)
          => (pc = "done" /\ error = "AssertionError" /\ calls = <<>>)
    /\ (InLibInstall /\ pc # "lib_check_args" /\ LibTargets # 1)
          => (pc = "done" /\ error = "AssertionError" /\ calls = <<>>)

LastMethod == IF calls = <<>> THEN "" ELSE calls[Len(calls)].method

\* the exception raised inside the try block around start and status (by the
\* call, or by reading a malformed status), "None" if there was none
TryException ==
    IF logged # <<>> THEN logged[1]
    ELSE IF error # "None" /\ LastMethod \in {"start_agent", "agent_status"}
    THEN error
    ELSE "None"

\* the run went on the way it does after a successful start sequence: no
\* error, the identifier reported as installed, the callback invoked
InstallStillReported ==
    /\ error = "None"
    /\ pc \in {"report", "callback", "done"}
    /\ pc \in {"callback", "done"}
          => /\ stdout # <<>>
             /\ stdout[1].fmt = "plain"
                   => stdout[1].text = "Agent " \o ToStr(agent_uuid) \o " installed"
             /\ stdout[1].fmt = "json"
                   => DictGet(stdout[1].obj, "agent_uuid") = agent_uuid
    /\ (pc = "done" /\ entry = "install_agent_vctl" /\ callback) => callback_called

\* C5 as stated: whatever start_agent or agent_status raises is swallowed.
C5_AnyExceptionSwallowed ==
    (InAgentInstall /\ TryException # "None") => InstallStillReported

\* C5, amended: an exception of the Exception hierarchy raised by
\* start_agent or agent_status, or by a malformed status, is logged and
\* swallowed; the command does not fail, the identifier is reported as
\* installed and the callback is invoked.
C5_ExceptionSwallowed ==
    (InAgentInstall /\ TryException = "Exception")
        => (InstallStillReported /\ logged = <<"Exception">>)

\* agent_status failed or was malformed, and the command completed
C5_Witness ==
    /\ InAgentInstall
    /\ TryException = "Exception"
    /\ LastMethod = "agent_status"
    /\ pc = "done"
    /\ callback_called
    /\ stdout # <<>>

\* C6: when request building has ended, on any exit path, the temporary
\* config file no longer exists.
C6_TempFileDeleted ==
    (InAgentInstall /\ pc \notin {"check_args", "load_config"}) => cfg # "open"

ArgumentsChecked == pc \notin {"check_args", "lib_check_args"} /\ inner # "none"

\* C7: when the source directory has no build descriptor, the build left
\* no wheel, the wheel file is missing or the config path is missing, the
\* command has ended with an error, no call was issued on the connection and
\* the callback was not invoked.
C7_LocalFailuresBeforeRpc ==
    (\/ facts.pyproject = "no"
     \/ facts.built = "no"
     \/ facts.config = "no"
     \/ (ArgumentsChecked /\ Truthy(wheel_file) /\ ~wheel_file.exists))
        => /\ pc = "done"
           /\ error \in {"AssertionError", "InstallRuntimeError"}
           /\ calls = <<>>
           /\ ~callback_called

\* install-lib on a directory without pyproject.toml, a callback given
C7_Witness ==
    /\ entry = "install_lib_vctl"
    /\ classified.type = "directory"
    /\ facts.pyproject = "no"
    /\ callback
    /\ pc = "done"

PrioritizeCalls == {i \in 1..Len(calls) : calls[i].method = "prioritize_agent"}

\* the --priority given: opts.priority is "50" only after the default was
\* replaced
GivenPriority ==
    IF opts.priority = PyString("50") THEN DefaultPriority ELSE opts.priority.n

PrioritizeRequested == opts.enable \/ GivenPriority # DefaultPriority

PastPrioritize ==
    \/ pc \in {"start", "status", "report", "callback"}
    \/ pc = "done" /\ (stdout # <<>> \/ LastMethod \in {"start_agent", "agent_status"})

\* C8: prioritize_agent is issued (once) exactly when enable was requested
\* or a priority other than -1 was given; it carries "50" when no priority
\* was given and the given priority otherwise.
C8_PrioritizeRule ==
    InAgentInstall =>
        /\ Cardinality(PrioritizeCalls) <= 1
        /\ \A i \in PrioritizeCalls :
              /\ PrioritizeRequested
              /\ calls[i].args[1] = agent_uuid
              /\ calls[i].args[2] =
                    PyString(IF GivenPriority = DefaultPriority THEN "50"
                             ELSE IntToStr(GivenPriority))
        /\ (PastPrioritize /\ PrioritizeRequested) => PrioritizeCalls # {}

\* an explicit priority without --enable was sent
C8_Witness ==
    /\ InAgentInstall
    /\ ~opts.enable
    /\ GivenPriority = 1
    /\ PrioritizeCalls # {}
    /\ pc = "done"
    /\ error = "None"

\* C9: the classifier never raises and decides by first match: recognized
\* scheme, existing directory, existing file with the wheel suffix, registry
\* reference; Url and RegistryRef return the input unmodified.
C9_ClassifierTotalAndOrdered ==
    (entry = "_classify_install_source" /\ pc = "done")
        => /\ classified.raised = "None"
           /\ classified.type =
                 IF UrlScheme(opts.install_path) \in RecognizedSchemes THEN "url"
                 ELSE IF fsKind = "dir" THEN "directory"
                 ELSE IF fsKind = "file" /\ EndsWith(opts.install_path, WhlSuffix)
                 THEN "wheel"
                 ELSE "pypi"
           /\ classified.type \in {"url", "pypi"}
                 => classified.value = opts.install_path

\* C10: the report is one output in one format: the CSV lines in CSV mode,
\* the JSON object in JSON mode, the summary line in plain mode, with the
\* process id exactly when the agent was reported started.
C10_OneOutputFormat ==
    (InAgentInstall /\ stdout # <<>>)
        => /\ Len(stdout) = 1
           /\ opts.csv => stdout[1].fmt = "csv"
           /\ (opts.json /\ ~opts.csv) => stdout[1].fmt = "json"
           /\ (~opts.json /\ ~opts.csv)
                 => /\ stdout[1].fmt = "plain"
                    /\ stdout[1].text =
                          IF DictGet(output_dict, "started") = PyBool(TRUE)
                          THEN "Agent " \o ToStr(agent_uuid)
                               \o " installed and started ["
                               \o ToStr(DictGet(output_dict, "pid")) \o "]"
                          ELSE "Agent " \o ToStr(agent_uuid) \o " installed"

\* the place of a method in the order of the dispatcher's steps
CallRank(method) ==
    CASE method = "install_agent" -> 1
      [] method = "tag_agent" -> 2
      [] method = "prioritize_agent" -> 3
      [] method = "start_agent" -> 4
      [] method = "agent_status" -> 5
      [] OTHER -> 0

\* the calls issued so far follow the fixed order, none twice, install_agent
\* first, agent_status right after a start_agent that returned
CallsInOrder ==
    InAgentInstall =>
        /\ \A i \in 1..Len(calls) : CallRank(calls[i].method) > 0
        /\ \A i, j \in 1..Len(calls) :
              i < j => CallRank(calls[i].method) < CallRank(calls[j].method)
        /\ calls # <<>> => calls[1].method = "install_agent"
        /\ \A i \in 1..Len(calls) :
              calls[i].method = "agent_status"
                 => /\ i > 1
                    /\ calls[i - 1].method = "start_agent"
                    /\ DictGet(output_dict, "starting") = PyBool(TRUE)

\* a step that writes the report issues no call, and no call follows a report
ReportAfterCalls ==
    (InAgentInstall /\ (stdout # <<>> \/ stdout' # stdout)) => calls' = calls

\* C11: in every run of the agent install the calls occur in the order
\* install_agent, tag_agent, prioritize_agent, start_agent, agent_status,
\* each at most once; install_agent is the first call, agent_status is
\* issued only after start_agent returned without error, and the result is
\* reported only after the last issued call.
C11_FixedCallOrder == [](CallsInOrder) /\ [][ReportAfterCalls]_vars

\* all five calls were issued and the result reported
C11_Witness ==
    /\ InAgentInstall
    /\ Len(calls) = 5
    /\ stdout # <<>>
    /\ error = "None"
    /\ pc = "done"

====
